---- MODULE Spec2Model ----
(***************************************************************************)
(* A model of mce (Mechanical Compound Eye): the DeepStreamApp lifecycle   *)
(* (StateSetter), the bus callback, and the InferenceBin / GhostBin port   *)
(* acquisition and source linking done from pad-added callbacks.           *)
(*                                                                         *)
(* GStreamer and GLib are external: every call into them is modelled by    *)
(* the set of results the call can return, chosen nondeterministically.    *)
(***************************************************************************)
EXTENDS Integers, Sequences, FiniteSets, TLC

\* ---------------------------------------------------------------- bounds
\* number of source uris given to DeepStreamApp (one uridecodebin and one
\* streaming thread per source)
MaxSources == 2
\* number of pad-added emissions (link_source calls) in one run
MaxCalls == 2
\* number of make_ghost calls on a GhostBin used on its own
MaxGhostCalls == 3
\* length of a BinDescription given to make_elements
MaxDescLen == 3
\* videos youtube-dl finds behind one YouTube uri
MaxVideos == 2
\* elements nested below a uridecodebin, one inside the other
MaxDepth == 3

Threads == 1..MaxSources

\* ------------------------------------------------------------ caps, pads
\* Caps strings are sequences of tokens; "video/x-raw" is <<"video/", "x-raw">>.
VIDEO_RAW == <<"video/", "x-raw">>

CapsStrings ==
    { <<"video/", "x-raw", "(memory:NVMM)", ", format=(string)NV12">>,
      <<"video/", "x-h264", ", stream-format=(string)avc">>,
      <<"audio/", "x-raw", ", format=(string)S16LE">> }

\* a source pad: <<owning source, caps string>>
Pads == Threads \X CapsStrings

query_caps(pad) == pad[2]

startswith(string, prefix) ==
    /\ Len(prefix) <= Len(string)
    /\ SubSeq(string, 1, Len(prefix)) = prefix

caps_start_with(pad, caps_str) ==
    IF startswith(query_caps(pad), caps_str) THEN TRUE ELSE FALSE

is_video_pad_prefix(pad) == caps_start_with(pad, <<"video/">>)

is_video_pad(pad) == caps_start_with(pad, VIDEO_RAW)

\* ------------------------------------------------------------- variables
VARIABLES
    \* InferenceBin / GhostBin
    source_counter,     \* InferenceBin._source_counter
    pad_counter,        \* InferenceBin._pad_counter
    outer_pad_count,    \* GhostBin._outer_pad_count, by direction
    mux_pads,           \* indices i of the request pads sink_i of stream-muxer
    ghosts,             \* ghost pads added to the bin: [dir, idx, target]
    links,              \* <<source pad, ghost pad name>> links
    \* pad-added callbacks (one streaming thread per source)
    th,                 \* per thread: the frame of its link_source call
    calls,              \* link_source calls made so far
    acquired,           \* get_sink_pad calls that obtained an inner pad
    last_ls,            \* how the last finished link_source call ended
    requested,          \* the get_request_pad calls made: index, granted
    \* DeepStreamApp / StateSetter
    main_pc,            \* position of the main thread in main()
    num_uris,           \* len(self._uris)
    props,              \* properties set on the InferenceBin's elements
    sources,            \* uridecodebins added (DeepStreamApp._source_counter)
    state,              \* current Gst.State of the pipeline
    pending,            \* target of a state change still in progress
    stuck,              \* the pending state change never completes
    loop_running,       \* self._loop.is_running()
    last_call,          \* the last set_state call and what it did
    quit_streak,        \* consecutive quit() calls just made (capped at 2)
    quit_loop_before,   \* the loop was running when the last quit() began
    exc,                \* exception travelling out of the with-block
    eos_handled,        \* on_message has handled an EOS while PLAYING
    watch,              \* the bus watch added by __enter__ is attached
    last_msg,           \* the last EOS or ERROR message on_message handled
    \* a GhostBin used on its own
    gb_count,           \* GhostBin._outer_pad_count, by direction
    gb_ghosts,          \* the ghost pads make_ghost returned, in order
    gb_linked,          \* the pads that are linked
    gb_calls,           \* make_ghost calls made so far
    gb_last,            \* the last make_ghost call and how it ended
    \* the module's functions called on their own
    fn                  \* the last call: function, arguments and result

binVars == <<source_counter, pad_counter, outer_pad_count, mux_pads, ghosts, links>>
cbVars == <<th, calls, acquired, last_ls, requested>>
fwVars == <<state, pending, stuck>>
appVars == <<main_pc, num_uris, props, sources, loop_running, last_call,
             quit_streak, quit_loop_before, exc, eos_handled, watch, last_msg>>
gbVars == <<gb_count, gb_ghosts, gb_linked, gb_calls, gb_last>>
fnVars == <<fn>>
vars == <<binVars, cbVars, fwVars, appVars, gbVars, fnVars>>

\* ------------------------------------------------------------ constants
NoPad == <<>>
NoName == <<>>
NoCall == [target |-> "VOID", async_ |-> FALSE, ret |-> "VOID",
           waited |-> FALSE, error |-> "none", returned |-> "VOID"]

NoPads == <<>>
NoSnap == <<>>
IdleFrame == [pc |-> "idle", pad |-> NoPads, tmp |-> 0, inner |-> NoPad,
              req |-> NoPad, name |-> NoName, holds |-> FALSE, pre |-> 0,
              error |-> "none", snap |-> NoSnap]
NoResult == [outcome |-> "none", pre |-> 0, error |-> "none"]

States == {"NULL", "READY", "PAUSED", "PLAYING"}

\* no InferenceBin yet
NoProps == [mux_batch_size |-> 0, pie_batch_size |-> 0, rows |-> 0,
            columns |-> 0]

\* ------------------------------------------- pipeline.py: description
\* int(math.ceil(math.sqrt(n)))
ceil_sqrt(n) ==
    CHOOSE r \in 0..n : r * r >= n /\ \A q \in 0..n : q * q >= n => r <= q

\* int(math.sqrt(n))
floor_sqrt(n) ==
    CHOOSE r \in 0..n : r * r <= n /\ \A q \in 0..n : q * q <= n => q <= r

calc_rows_and_columns_floor(num_sources) ==
    IF num_sources = 0 THEN 1 ELSE floor_sqrt(num_sources)

calc_rows_and_columns(num_sources) ==
    IF num_sources = 0 THEN 1 ELSE ceil_sqrt(num_sources)

\* the element properties of make_inference_description that depend on
\* num_sources
make_inference_description(num_sources) ==
    LET rows_and_columns == calc_rows_and_columns(num_sources)
    IN  [mux_batch_size |-> num_sources,
         pie_batch_size |-> num_sources,
         rows |-> rows_and_columns,
         columns |-> rows_and_columns]

\* ------------------------------- pipeline.py: convert_uris, __enter__
\* a uri is the name of a file, a YouTube uri, or any other uri
UriKinds == {"file", "rtsp", "youtube"}
UriLists == UNION { [1..n -> UriKinds] : n \in 0..MaxSources }
PlainUris(n) == [i \in 1..n |-> "rtsp"]

youtube_in_uris(uris) == \E i \in 1..Len(uris) : uris[i] = "youtube"

\* the "for uri in uris" loop of convert_uris from uri i on: what it yields.
\* ydl tells whether a YoutubeDL instance was passed, videos how many
\* entries with a url extract_info finds for a YouTube uri
RECURSIVE convert_uris_from(_, _, _, _)
convert_uris_from(uris, i, ydl, videos) ==
    IF i > Len(uris) THEN <<>>
    ELSE
    LET rest == convert_uris_from(uris, i + 1, ydl, videos)
    IN  CASE uris[i] = "file" -> <<"file_uri">> \o rest
          [] uris[i] = "youtube" ->
                IF ~ydl THEN rest
                ELSE [k \in 1..videos |-> "video_url"] \o rest
          [] OTHER -> <<uris[i]>> \o rest

\* convert_uris(uris): with youtube_dl imported and a YouTube uri present it
\* yields what the nested call yields and then does "raise StopIteration()",
\* which ends the generator before PEP 479 (Python 3.6) and is a
\* RuntimeError in the consumer from Python 3.7 on
convert_uris(uris, have_youtube_dl, videos, pep479) ==
    IF have_youtube_dl /\ youtube_in_uris(uris)
    THEN [yielded |-> convert_uris_from(uris, 1, TRUE, videos),
          raised |-> pep479]
    ELSE [yielded |-> convert_uris_from(uris, 1, FALSE, videos),
          raised |-> FALSE]

\* _add_source: f'source_{self._source_counter}'
source_name(counter) == <<"source", counter>>

\* __enter__, lines 838-850: the InferenceBin is built for len(self._uris)
\* and one uridecodebin is added for each uri convert_uris yields
DeepStreamApp_enter(uris, have_youtube_dl, videos, pep479) ==
    LET c == IF Len(uris) > 0
             THEN convert_uris(uris, have_youtube_dl, videos, pep479)
             ELSE [yielded |-> <<>>, raised |-> FALSE]
    IN  [num_sources |-> Len(uris),
         sources |-> [k \in 1..Len(c.yielded) |-> source_name(k - 1)],
         raised |-> c.raised]

\* the pads make_ghost can be given on a GhostBin used on its own: pads of
\* the bin's children and pads of elements outside the bin
Directions == {"SRC", "SINK"}
PadIds == {1, 2}
InsidePads == [owner : {"inside"}, dir : Directions, id : PadIds]
OutsidePads == [owner : {"outside"}, dir : Directions, id : {1}]
GPads == InsidePads \cup OutsidePads
NoGPad == [owner |-> "none", dir |-> "UNKNOWN", id |-> 0]
NoGhostCall == [outcome |-> "none", error |-> "none", pad |-> NoGPad,
                was_linked |-> FALSE,
                pre_count |-> [d \in Directions |-> 0], pre_len |-> 0]

\* no function has been called on its own
NoFn == [op |-> "none"]

\* ------------------------------------------------------------------ Init
\* The state after DeepStreamApp.__init__: nothing built yet, the loop
\* created and not running.
Init ==
    /\ source_counter = 0
    /\ pad_counter = 0
    /\ outer_pad_count = [d \in {"SRC", "SINK"} |-> 0]
    /\ mux_pads = {}
    /\ ghosts = {}
    /\ links = {}
    /\ th = [t \in Threads |-> IdleFrame]
    /\ calls = 0
    /\ acquired = 0
    /\ last_ls = NoResult
    /\ requested = <<>>
    /\ main_pc = "init"
    /\ num_uris \in 0..MaxSources
    /\ props = NoProps
    /\ sources = 0
    /\ state = "NULL"
    /\ pending = "VOID"
    /\ stuck = FALSE
    /\ loop_running = FALSE
    /\ last_call = NoCall
    /\ quit_streak = 0
    /\ quit_loop_before = FALSE
    /\ exc = "none"
    /\ eos_handled = FALSE
    /\ watch = FALSE
    /\ last_msg = "none"
    /\ gb_count = [d \in Directions |-> 0]
    /\ gb_ghosts = <<>>
    /\ gb_linked = {}
    /\ gb_calls = 0
    /\ gb_last = NoGhostCall
    /\ fn = NoFn


\* ------------------------------------------------------ framework model
\* The stream-muxer's request pad sink_i is linked once a live ghost pad
\* targets it: a ghost pad added to the bin, or one a callback still holds.
InnerLinked(i) ==
    \/ \E g \in ghosts : g.target = i
    \/ \E t \in Threads : th[t].holds /\ th[t].inner = <<i>>

\* Gst.Bin.find_unlinked_pad(SINK): the static sink pads of the children are
\* linked by auto_link, so only unghosted request pads of the muxer qualify.
find_unlinked_pad ==
    LET free == { <<i>> : i \in { j \in mux_pads : ~InnerLinked(j) } }
    IN  IF free = {} THEN {NoPad} ELSE free

\* Gst.Element.get_request_pad("sink_<i>"): the muxer hands out the pad or
\* refuses; asking for a name that exists is undefined in GStreamer and
\* yields the existing pad or nothing.
get_request_pad(i) == {NoPad, <<i>>}

\* Gst.GhostPad.new(name, target): None when the target is already linked.
GhostPad_new(inner) ==
    IF InnerLinked(inner[1]) THEN {FALSE} ELSE {TRUE, FALSE}

\* Gst.Element.add_pad: refuses a pad whose name the element already has.
add_pad(name) ==
    IF \E g \in ghosts : <<g.dir, g.idx>> = name THEN {FALSE} ELSE {TRUE, FALSE}

\* Gst.Pad.link: WAS_LINKED exactly when one side has a peer.
PadLinkReturn(a_linked, b_linked) ==
    IF a_linked \/ b_linked
    THEN {"WAS_LINKED"}
    ELSE {"OK", "WRONG_HIERARCHY", "NOFORMAT", "REFUSED"}

SrcLinked(pad) == \E l \in links : l[1] = pad
SinkLinked(name) == \E l \in links : l[2] = name

\* ------------------------------------------------- pipeline.py: linking
\* _link_pads: TRUE when it raises LinkError for the framework's result.
link_pads_raises_noformat(ret, a_linked, b_linked) ==
    CASE ret = "OK" -> FALSE
      [] ret = "WRONG_HIERARCHY" -> TRUE
      [] ret = "WAS_LINKED" -> a_linked \/ b_linked
      [] ret = "NOFORMAT" -> FALSE
      [] OTHER -> TRUE

link_pads_raises(ret, a_linked, b_linked) ==
    CASE ret = "OK" -> FALSE
      [] ret = "WRONG_HIERARCHY" -> TRUE
      [] ret = "WAS_LINKED" -> a_linked \/ b_linked
      [] ret = "NOFORMAT" -> TRUE
      [] OTHER -> TRUE

\* GhostBin.make_ghost: the outer name for a direction and its counter.
outer_name(direction, count) ==
    IF direction = "SRC" THEN <<"src", count>> ELSE <<"sink", count>>

\* get_sink_pad, line 708: the value stored by self._pad_counter += 1
pad_counter_after_same(tmp) == tmp

pad_counter_after(tmp) == tmp + 1

\* the value link_source stores back on failure
rollback_none(tmp) == tmp

rollback(tmp) == tmp - 1

Upd(t, f) == th' = [th EXCEPT ![t] = f]

Raise(t, error) == Upd(t, [th[t] EXCEPT !.pc = "rb_load", !.error = error])

\* pad-added is emitted by a source that exists, while the pipeline is, or
\* is on its way to, PAUSED or PLAYING.
Streaming ==
    \/ state \in {"PAUSED", "PLAYING"}
    \/ pending \in {"PAUSED", "PLAYING"}

\* the counters and pads of the bin that get_sink_pad works on
BinSnapshot == <<pad_counter, outer_pad_count, ghosts, mux_pads>>

AllIdle == \A t \in Threads : th[t].pc = "idle"

\* link_source, lines 717-723: the caps check and the read of
\* self.source_counter for the += 1.
LS_Begin(t, pad) ==
    /\ th[t].pc = "idle"
    /\ t <= sources
    /\ pad[1] = t
    /\ Streaming
    /\ calls < MaxCalls
    /\ calls' = calls + 1
    /\ IF ~is_video_pad(pad)
       THEN /\ th' = th
            /\ last_ls' = [outcome |-> "ignored", pre |-> source_counter,
                           error |-> "none"]
       ELSE /\ Upd(t, [IdleFrame EXCEPT !.pc = "inc_store", !.pad = pad,
                                        !.pre = source_counter,
                                        !.tmp = source_counter])
            /\ last_ls' = last_ls
    /\ UNCHANGED <<binVars, acquired, requested, fwVars, appVars, gbVars, fnVars>>

\* link_source, line 723: the store of self.source_counter += 1
LS_Inc_double(t) ==
    /\ th[t].pc = "inc_store"
    /\ source_counter' = th[t].tmp + 2
    /\ Upd(t, [th[t] EXCEPT !.pc = "find", !.snap = BinSnapshot])
    /\ UNCHANGED <<pad_counter, outer_pad_count, mux_pads, ghosts, links,
                   calls, requested, acquired, last_ls, fwVars, appVars, gbVars, fnVars>>

LS_Inc(t) ==
    /\ th[t].pc = "inc_store"
    /\ source_counter' = th[t].tmp + 1
    /\ Upd(t, [th[t] EXCEPT !.pc = "find", !.snap = BinSnapshot])
    /\ UNCHANGED <<pad_counter, outer_pad_count, mux_pads, ghosts, links,
                   calls, requested, acquired, last_ls, fwVars, appVars, gbVars, fnVars>>

\* get_sink_pad, lines 700-701
GSP_Find(t) ==
    /\ th[t].pc = "find"
    /\ \E p \in find_unlinked_pad :
         Upd(t, [th[t] EXCEPT !.inner = p,
                              !.pc = IF p = NoPad THEN "request" ELSE "count_load"])
    /\ UNCHANGED <<binVars, calls, requested, acquired, last_ls, fwVars, appVars, gbVars, fnVars>>

\* get_sink_pad, lines 705-711: request sink_<pad_counter>
GSP_Request_counts(t) ==
    /\ th[t].pc = "request"
    /\ \E p \in get_request_pad(pad_counter) :
         /\ mux_pads' = IF p = NoPad THEN mux_pads ELSE mux_pads \cup {p[1]}
         /\ requested' = Append(requested, [idx |-> pad_counter,
                                            granted |-> p # NoPad])
         /\ pad_counter' = pad_counter + 1
         /\ IF p = NoPad
            THEN Upd(t, [th[t] EXCEPT !.pc = "rb_load", !.error = "GetPadError",
                                      !.req = <<pad_counter>>])
            ELSE Upd(t, [th[t] EXCEPT !.pc = "mg_check", !.inner = p,
                                      !.req = <<pad_counter>>])
    /\ UNCHANGED <<source_counter, outer_pad_count, ghosts, links,
                   calls, acquired, last_ls, fwVars, appVars, gbVars, fnVars>>

GSP_Request(t) ==
    /\ th[t].pc = "request"
    /\ \E p \in get_request_pad(pad_counter) :
         /\ mux_pads' = IF p = NoPad THEN mux_pads ELSE mux_pads \cup {p[1]}
         /\ requested' = Append(requested, [idx |-> pad_counter,
                                            granted |-> p # NoPad])
         /\ IF p = NoPad
            THEN Upd(t, [th[t] EXCEPT !.pc = "rb_load", !.error = "GetPadError",
                                      !.req = <<pad_counter>>])
            ELSE Upd(t, [th[t] EXCEPT !.pc = "count_load", !.inner = p,
                                      !.req = <<pad_counter>>])
    /\ UNCHANGED <<source_counter, pad_counter, outer_pad_count, ghosts, links,
                   calls, acquired, last_ls, fwVars, appVars, gbVars, fnVars>>

\* get_sink_pad, line 708: self._pad_counter += 1 (read)
GSP_CountLoad(t) ==
    /\ th[t].pc = "count_load"
    /\ Upd(t, [th[t] EXCEPT !.pc = "count_store", !.tmp = pad_counter])
    /\ acquired' = acquired + 1
    /\ UNCHANGED <<binVars, calls, requested, last_ls, fwVars, appVars, gbVars, fnVars>>

\* get_sink_pad, line 708: self._pad_counter += 1 (write)
GSP_CountStore(t) ==
    /\ th[t].pc = "count_store"
    /\ pad_counter' = pad_counter_after(th[t].tmp)
    /\ Upd(t, [th[t] EXCEPT !.pc = "mg_check"])
    /\ UNCHANGED <<source_counter, outer_pad_count, mux_pads, ghosts, links,
                   calls, requested, acquired, last_ls, fwVars, appVars, gbVars, fnVars>>

\* make_ghost(inner_pad=...), lines 596-600
MG_Check(t) ==
    /\ th[t].pc = "mg_check"
    /\ IF InnerLinked(th[t].inner[1])
       THEN Raise(t, "LinkError")
       ELSE Upd(t, [th[t] EXCEPT !.pc = "mg_name"])
    /\ UNCHANGED <<binVars, calls, requested, acquired, last_ls, fwVars, appVars, gbVars, fnVars>>

\* make_ghost, lines 610-616: the name from the per-direction counter
MG_Name(t) ==
    /\ th[t].pc = "mg_name"
    /\ Upd(t, [th[t] EXCEPT !.pc = "mg_new",
                            !.name = outer_name("SINK", outer_pad_count["SINK"])])
    /\ UNCHANGED <<binVars, calls, requested, acquired, last_ls, fwVars, appVars, gbVars, fnVars>>

\* make_ghost, lines 619-625: Gst.GhostPad.new
MG_New(t) ==
    /\ th[t].pc = "mg_new"
    /\ \E ok \in GhostPad_new(th[t].inner) :
         IF ok
         THEN Upd(t, [th[t] EXCEPT !.pc = "mg_inc_store", !.holds = TRUE,
                                   !.tmp = outer_pad_count["SINK"]])
         ELSE Raise(t, "GetPadError")
    /\ UNCHANGED <<binVars, calls, requested, acquired, last_ls, fwVars, appVars, gbVars, fnVars>>

\* make_ghost, line 621: self._outer_pad_count[direction] += 1 (write)
MG_Inc(t) ==
    /\ th[t].pc = "mg_inc_store"
    /\ outer_pad_count' = [outer_pad_count EXCEPT !["SINK"] = th[t].tmp + 1]
    /\ Upd(t, [th[t] EXCEPT !.pc = "mg_add"])
    /\ UNCHANGED <<source_counter, pad_counter, mux_pads, ghosts, links,
                   calls, requested, acquired, last_ls, fwVars, appVars, gbVars, fnVars>>

\* make_ghost, lines 626-630: activate the ghost pad and add it to the bin.
\* A ghost pad that could not be added is dropped, which frees its target.
MG_Add(t) ==
    /\ th[t].pc = "mg_add"
    /\ \E ok \in add_pad(th[t].name) :
         IF ok
         THEN /\ ghosts' = ghosts \cup {[dir |-> "sink", idx |-> th[t].name[2],
                                         target |-> th[t].inner[1]]}
              /\ Upd(t, [th[t] EXCEPT !.pc = "link", !.holds = FALSE])
         ELSE /\ ghosts' = ghosts
              /\ Upd(t, [th[t] EXCEPT !.pc = "rb_load", !.error = "BinAddError",
                                      !.holds = FALSE])
    /\ UNCHANGED <<source_counter, pad_counter, outer_pad_count, mux_pads, links,
                   calls, requested, acquired, last_ls, fwVars, appVars, gbVars, fnVars>>

\* link_source, line 726: link(src_pad, sink_pad)
LS_Link_unlinks(t) ==
    /\ th[t].pc = "link"
    /\ LET a == SrcLinked(th[t].pad)
           b == SinkLinked(th[t].name)
       IN \E ret \in PadLinkReturn(a, b) :
            /\ links' = IF ret = "OK" THEN links \cup {<<th[t].pad, th[t].name>>}
                        ELSE {}
            /\ IF link_pads_raises(ret, a, b)
               THEN /\ Raise(t, "LinkError")
                    /\ last_ls' = last_ls
               ELSE /\ Upd(t, IdleFrame)
                    /\ last_ls' = [outcome |-> "returned", pre |-> th[t].pre,
                                   error |-> "none"]
    /\ UNCHANGED <<source_counter, pad_counter, outer_pad_count, mux_pads, ghosts,
                   calls, requested, acquired, fwVars, appVars, gbVars, fnVars>>

LS_Link(t) ==
    /\ th[t].pc = "link"
    /\ LET a == SrcLinked(th[t].pad)
           b == SinkLinked(th[t].name)
       IN \E ret \in PadLinkReturn(a, b) :
            /\ links' = IF ret = "OK" THEN links \cup {<<th[t].pad, th[t].name>>}
                        ELSE links
            /\ IF link_pads_raises(ret, a, b)
               THEN /\ Raise(t, "LinkError")
                    /\ last_ls' = last_ls
               ELSE /\ Upd(t, IdleFrame)
                    /\ last_ls' = [outcome |-> "returned", pre |-> th[t].pre,
                                   error |-> "none"]
    /\ UNCHANGED <<source_counter, pad_counter, outer_pad_count, mux_pads, ghosts,
                   calls, requested, acquired, fwVars, appVars, gbVars, fnVars>>

\* link_source, line 728: self.source_counter -= 1 (read)
LS_RollbackLoad(t) ==
    /\ th[t].pc = "rb_load"
    /\ Upd(t, [th[t] EXCEPT !.pc = "rb_store", !.tmp = source_counter])
    /\ UNCHANGED <<binVars, calls, requested, acquired, last_ls, fwVars, appVars, gbVars, fnVars>>

\* link_source, lines 728-732: the write, then the error is re-raised
LS_RollbackStore_retries(t) ==
    /\ th[t].pc = "rb_store"
    /\ source_counter' = th[t].tmp
    /\ Upd(t, [th[t] EXCEPT !.pc = "find", !.error = "none"])
    /\ UNCHANGED <<pad_counter, outer_pad_count, mux_pads, ghosts, links,
                   calls, requested, acquired, last_ls, fwVars, appVars,
                   gbVars, fnVars>>

LS_RollbackStore(t) ==
    /\ th[t].pc = "rb_store"
    /\ source_counter' = rollback(th[t].tmp)
    /\ Upd(t, IdleFrame)
    /\ last_ls' = [outcome |-> "raised", pre |-> th[t].pre,
                   error |-> th[t].error]
    /\ UNCHANGED <<pad_counter, outer_pad_count, mux_pads, ghosts, links,
                   calls, requested, acquired, fwVars, appVars, gbVars, fnVars>>

LinkStep(t) ==
    \/ LS_Inc(t)
    \/ GSP_Find(t)
    \/ GSP_Request(t)
    \/ GSP_CountLoad(t)
    \/ GSP_CountStore(t)
    \/ MG_Check(t)
    \/ MG_Name(t)
    \/ MG_New(t)
    \/ MG_Inc(t)
    \/ MG_Add(t)
    \/ LS_Link(t)
    \/ LS_RollbackLoad(t)
    \/ LS_RollbackStore(t)


\* -------------------------------------------- pipeline.py: StateSetter
\* Gst.Element.set_state: the results the framework can report for a target.
\* A change to NULL or READY is never ASYNC; a change to NULL succeeds.
StateChangeReturn(target) ==
    CASE target = "NULL" -> {"SUCCESS"}
      [] target = "READY" -> {"SUCCESS", "FAILURE"}
      [] OTHER -> {"SUCCESS", "ASYNC", "FAILURE", "NO_PREROLL"}

\* set_state, lines 461-462: whether self.get_state(timeout) is called
set_state_waits(ret, async_) ==
    (~(ret = "ASYNC")) /\ ~async_

\* set_state, lines 461 and 466: whether the failure is logged (the elif of
\* "if not ret == ASYNC")
set_state_logs_failure(ret) ==
    (~(~(ret = "ASYNC"))) /\ ret = "FAILURE"

\* the application as quit() and set_state() see it
Cur ==
    [state |-> state, pending |-> pending, stuck |-> stuck,
     loop_running |-> loop_running, call |-> last_call,
     source_counter |-> source_counter, pad_counter |-> pad_counter,
     outer_pad_count |-> outer_pad_count, mux_pads |-> mux_pads,
     ghosts |-> ghosts, links |-> links]

\* set_state(state, async_) applied to cur: super().set_state reported ret,
\* stk tells whether a pending change hangs and done whether a bounded
\* get_state sees it complete.  The value returned is ret (line 473); the
\* result of get_state is dropped (line 465).  GST_DEBUG_DUMP_DOT_DIR is not
\* set in the runs of the application, so that the bin_to_pdf calls of
\* set_state, __enter__ and __exit__ return None; set_state_pdf has them.
set_state(cur, target, async_, ret, stk, done) ==
    LET waited == set_state_waits(ret, async_)
        completes == waited /\ ret = "ASYNC" /\ ~stk /\ done
    IN  [cur EXCEPT
           !.state = IF ret \in {"SUCCESS", "NO_PREROLL"} \/ completes
                     THEN target ELSE cur.state,
           !.pending = IF ret = "ASYNC" /\ ~completes THEN target ELSE "VOID",
           !.stuck = ret = "ASYNC" /\ ~completes /\ stk,
           !.call = [target |-> target, async_ |-> async_, ret |-> ret,
                     waited |-> waited,
                     error |-> IF set_state_logs_failure(ret)
                               THEN "failure" ELSE "none",
                     returned |-> ret]]

\* the attributes a DeepStreamApp instance has (lines 808-824)
AppAttributes ==
    {"_muxer", "_inference_bin", "_source_counter", "_pie_config", "_uris",
     "_loop", "_bus_cb", "_on_buffer"}

hasattr(name) == name \in AppAttributes

\* null(): the state it asks for
null_target_step_down(s) ==
    CASE s = "PLAYING" -> "PAUSED"
      [] s = "PAUSED" -> "READY"
      [] OTHER -> "NULL"

null_target(s) == "NULL"

\* quit(loop_also) applied to cur, lines 520-523
quit_unlinks(cur, loop_also, ret) ==
    LET r == set_state(cur, null_target(cur.state), FALSE, ret, FALSE, FALSE)
    IN  [r EXCEPT !.links = {}, !.source_counter = 0,
                  !.loop_running =
            IF loop_also /\ hasattr("loop") /\ cur.loop_running
            THEN FALSE ELSE cur.loop_running]

quit(cur, loop_also, ret) ==
    LET r == set_state(cur, null_target(cur.state), FALSE, ret, FALSE, FALSE)
    IN  [r EXCEPT !.loop_running =
            IF loop_also /\ hasattr("loop") /\ cur.loop_running
            THEN FALSE ELSE cur.loop_running]

\* the pipeline and the bin become those of r
Becomes(r) ==
    /\ state' = r.state
    /\ pending' = r.pending
    /\ stuck' = r.stuck
    /\ last_call' = r.call
    /\ source_counter' = r.source_counter
    /\ pad_counter' = r.pad_counter
    /\ outer_pad_count' = r.outer_pad_count
    /\ mux_pads' = r.mux_pads
    /\ ghosts' = r.ghosts
    /\ links' = r.links

Streak(n) == IF n = 0 THEN 1 ELSE 2

\* self.quit() with its defaults, as __exit__ and on_message call it
DoQuit ==
    \E ret \in StateChangeReturn(null_target(state)) :
      /\ Becomes(quit(Cur, TRUE, ret))
      /\ loop_running' = quit(Cur, TRUE, ret).loop_running
      /\ quit_streak' = Streak(quit_streak)
      /\ quit_loop_before' = loop_running

\* a set_state call of the main thread that is not part of quit()
DoSetState(target, async_) ==
    \E ret \in StateChangeReturn(target), stk \in BOOLEAN, done \in BOOLEAN :
      /\ Becomes(set_state(Cur, target, async_, ret, stk, done))
      /\ quit_streak' = 0
      /\ quit_loop_before' = FALSE

\* ------------------------------------------------ DeepStreamApp, main()
\* __enter__: the bus watch, the InferenceBin, one uridecodebin per uri
Enter ==
    /\ main_pc = "init"
    /\ main_pc' = "entered"
    /\ LET r == DeepStreamApp_enter(PlainUris(num_uris), FALSE, 0, FALSE)
       IN  /\ sources' = Len(r.sources)
           /\ props' = make_inference_description(r.num_sources)
    /\ watch' = TRUE
    /\ UNCHANGED <<binVars, cbVars, gbVars, fnVars, fwVars, num_uris, loop_running, last_call,
                   quit_streak, quit_loop_before, exc, eos_handled, last_msg>>

\* pipeline.ready(**kwargs)
Ready(async_) ==
    /\ main_pc = "entered"
    /\ main_pc' = "readied"
    /\ DoSetState("READY", async_)
    /\ loop_running' = loop_running
    /\ UNCHANGED <<cbVars, gbVars, fnVars, num_uris, props, sources, exc, eos_handled, watch, last_msg>>

\* play, line 492: whether self._loop.run() is called
play_runs_loop_running(loop_also, is_running) ==
    loop_also /\ hasattr("_loop")

play_runs_loop(loop_also, is_running) ==
    loop_also /\ hasattr("_loop") /\ ~is_running

\* pipeline.play(loop_also, **kwargs): set_state(PLAYING), then run the loop
Play_checked(loop_also, async_) ==
    /\ main_pc = "readied"
    /\ DoSetState("PLAYING", async_)
    /\ IF play_runs_loop(loop_also, loop_running) /\ last_call'.ret # "FAILURE"
       THEN loop_running' = TRUE /\ main_pc' = "in_loop"
       ELSE loop_running' = loop_running /\ main_pc' = "exiting"
    /\ UNCHANGED <<cbVars, gbVars, fnVars, num_uris, props, sources, exc, eos_handled, watch, last_msg>>

Play(loop_also, async_) ==
    /\ main_pc = "readied"
    /\ DoSetState("PLAYING", async_)
    /\ IF play_runs_loop(loop_also, loop_running)
       THEN loop_running' = TRUE /\ main_pc' = "in_loop"
       ELSE loop_running' = loop_running /\ main_pc' = "exiting"
    /\ UNCHANGED <<cbVars, gbVars, fnVars, num_uris, props, sources, exc, eos_handled, watch, last_msg>>

\* an ASYNC state change completes on a streaming thread
AsyncDone ==
    /\ pending # "VOID"
    /\ ~stuck
    /\ state' = pending
    /\ pending' = "VOID"
    /\ UNCHANGED <<binVars, cbVars, gbVars, fnVars, stuck, appVars>>

MessageTypes ==
    {"TAG", "DURATION_CHANGED", "STREAM_STATUS", "STATE_CHANGED", "EOS",
     "ERROR", "WARNING", "OTHER"}

\* bus.py on_message(bus, message, app) applied to the application cur:
\* the application it leaves, whether it called app.quit(), and the value
\* it returns to the watch.  ret is what the framework reports to quit().
on_message_warning_quits(cur, m, ret) ==
    CASE m \in {"EOS", "ERROR", "WARNING"} ->
            [app |-> quit(cur, TRUE, ret), quits |-> TRUE, returned |-> TRUE]
      [] OTHER ->
            [app |-> cur, quits |-> FALSE, returned |-> TRUE]

on_message(cur, m, ret) ==
    CASE m = "TAG" -> [app |-> cur, quits |-> FALSE, returned |-> TRUE]
      [] m = "DURATION_CHANGED" ->
            [app |-> cur, quits |-> FALSE, returned |-> TRUE]
      [] m = "STREAM_STATUS" ->
            [app |-> cur, quits |-> FALSE, returned |-> TRUE]
      [] m = "STATE_CHANGED" ->
            [app |-> cur, quits |-> FALSE, returned |-> TRUE]
      [] m = "EOS" ->
            [app |-> quit(cur, TRUE, ret), quits |-> TRUE, returned |-> TRUE]
      [] m = "ERROR" ->
            [app |-> quit(cur, TRUE, ret), quits |-> TRUE, returned |-> TRUE]
      [] m = "WARNING" ->
            [app |-> cur, quits |-> FALSE, returned |-> TRUE]
      [] OTHER ->
            [app |-> cur, quits |-> FALSE, returned |-> TRUE]

\* the running loop dispatches a bus message to the watch; a watch that
\* returns False is removed by GLib
OnMessage(m) ==
    /\ main_pc = "in_loop"
    /\ loop_running
    /\ watch
    /\ \E ret \in StateChangeReturn(null_target(state)) :
         LET r == on_message(Cur, m, ret)
         IN  /\ Becomes(r.app)
             /\ loop_running' = r.app.loop_running
             /\ watch' = r.returned
             /\ quit_streak' = IF r.quits THEN Streak(quit_streak)
                               ELSE quit_streak
             /\ quit_loop_before' = IF r.quits THEN loop_running
                                    ELSE quit_loop_before
    /\ eos_handled' = (eos_handled \/ (m = "EOS" /\ state = "PLAYING"))
    /\ last_msg' = IF m \in {"EOS", "ERROR"} THEN m ELSE last_msg
    /\ UNCHANGED <<cbVars, gbVars, fnVars, main_pc, num_uris, props, sources, exc>>

\* SIGINT while the loop runs: GLib quits the loop; run() will raise
\* KeyboardInterrupt
Interrupt ==
    /\ main_pc = "in_loop"
    /\ loop_running
    /\ loop_running' = FALSE
    /\ exc' = "KeyboardInterrupt"
    /\ UNCHANGED <<binVars, cbVars, gbVars, fnVars, fwVars, main_pc, num_uris, props, sources, last_call,
                   quit_streak, quit_loop_before, eos_handled, watch, last_msg>>

\* self._loop.run() ends once the loop was quit: play() returns or raises
\* and the with-block is left
LoopReturn ==
    /\ main_pc = "in_loop"
    /\ ~loop_running
    /\ main_pc' = "exiting"
    /\ UNCHANGED <<binVars, cbVars, gbVars, fnVars, fwVars, num_uris, props, sources, loop_running,
                   last_call, quit_streak, quit_loop_before, exc, eos_handled,
                   watch, last_msg>>

\* the body of the with-block raises an exception that is not a
\* KeyboardInterrupt: the block is left and __exit__ is handed its type
BlockRaises ==
    /\ main_pc \in {"entered", "readied"}
    /\ exc = "none"
    /\ exc' = "Exception"
    /\ main_pc' = "exiting"
    /\ UNCHANGED <<binVars, cbVars, gbVars, fnVars, fwVars, num_uris, props, sources,
                   loop_running, last_call, quit_streak, quit_loop_before,
                   eos_handled, watch, last_msg>>

\* __exit__, lines 901-903: "return True" suppresses the exception
exit_suppresses_all(exc_type) == exc_type # "none"

exit_suppresses(exc_type) == exc_type = "KeyboardInterrupt"

\* __exit__, lines 892-904
Exit ==
    /\ main_pc = "exiting"
    /\ DoQuit
    /\ exc' = IF exit_suppresses(exc) THEN "none" ELSE exc
    /\ main_pc' = "done"
    /\ UNCHANGED <<cbVars, gbVars, fnVars, num_uris, props, sources, eos_handled, watch, last_msg>>

\* main(), lines 123-125: ready() and play() are called with their defaults
MainStep ==
    \/ Enter
    \/ Ready(FALSE)
    \/ Play(TRUE, FALSE)
    \/ LoopReturn
    \/ Exit

\* ------------------------------------------------ GhostBin on its own
\* the GhostBin as make_ghost sees it
GhostBinNow == [count |-> gb_count, ghosts |-> gb_ghosts, linked |-> gb_linked]

\* Gst.Bin.find_unlinked_pad(direction): an unlinked pad of that direction
\* on a child of the bin, or None
gb_find_unlinked_pad(bin, direction) ==
    LET free == { q \in InsidePads : q.dir = direction /\ q \notin bin.linked }
    IN  IF free = {} THEN {NoGPad} ELSE free

\* Gst.GhostPad.new(name, target): None when the target cannot be linked to
\* the ghost's proxy pad, or when the framework fails otherwise
ghost_pad_new(bin, target, willing) == willing /\ target \notin bin.linked

\* Gst.Element.add_pad: refuses a pad whose name the element already has
gb_add_pad(bin, name, willing) ==
    willing /\ ~\E i \in 1..Len(bin.ghosts) : bin.ghosts[i].name = name

\* make_ghost, lines 596-600: the supplied inner pad is rejected as linked
inner_pad_is_linked_unchecked(bin, inner_pad) == FALSE

inner_pad_is_linked(bin, inner_pad) == inner_pad \in bin.linked

\* make_ghost, lines 619-630: the per-direction counter after
\* Gst.GhostPad.new and add_pad
outer_pad_count_after_undone(count, created, added) ==
    IF created /\ added THEN count + 1 ELSE IF created THEN count - 1 ELSE count

outer_pad_count_after(count, created, added) ==
    IF created THEN count + 1 ELSE count

MakeGhostRaises_reset(bin, error) ==
    [bin |-> [bin EXCEPT !.count = [d \in Directions |-> 0]],
     outcome |-> "raised", error |-> error]

MakeGhostRaises(bin, error) ==
    [bin |-> bin, outcome |-> "raised", error |-> error]

\* make_ghost(direction, inner_pad) applied to bin.  found is what
\* find_unlinked_pad returns; new_willing and add_willing tell whether the
\* framework lets GhostPad.new and add_pad succeed when they can.
make_ghost(bin, direction, inner_pad, found, new_willing, add_willing) ==
    IF inner_pad = NoGPad /\ direction = "NONE"
    THEN MakeGhostRaises(bin, "BinAddError")
    ELSE
    LET dir == IF inner_pad # NoGPad THEN inner_pad.dir ELSE direction
        pad == IF inner_pad # NoGPad THEN inner_pad ELSE found
    IN  IF inner_pad # NoGPad /\ inner_pad_is_linked(bin, inner_pad)
        THEN MakeGhostRaises(bin, "LinkError")
        ELSE IF pad = NoGPad
        THEN MakeGhostRaises(bin, "GetPadError")
        ELSE IF dir \notin Directions
        THEN MakeGhostRaises(bin, "GetPadError")
        ELSE
        LET name == outer_name(dir, bin.count[dir])
            created == ghost_pad_new(bin, pad, new_willing)
            added == created /\ gb_add_pad(bin, name, add_willing)
            counted == [bin EXCEPT !.count[dir] =
                            outer_pad_count_after(@, created, added)]
        IN  IF ~created
            THEN MakeGhostRaises(counted, "GetPadError")
            ELSE IF ~added
            THEN MakeGhostRaises(counted, "BinAddError")
            ELSE [bin |-> [counted EXCEPT
                              !.ghosts = Append(@, [name |-> name, target |-> pad]),
                              !.linked = @ \cup {pad}],
                  outcome |-> "returned", error |-> "none"]

\* a make_ghost call on the GhostBin
GB_MakeGhost(direction, inner_pad) ==
    /\ gb_calls < MaxGhostCalls
    /\ gb_calls' = gb_calls + 1
    /\ \E found \in gb_find_unlinked_pad(GhostBinNow, direction),
          new_willing \in BOOLEAN, add_willing \in BOOLEAN :
         LET r == make_ghost(GhostBinNow, direction, inner_pad, found,
                             new_willing, add_willing)
         IN  /\ gb_count' = r.bin.count
             /\ gb_ghosts' = r.bin.ghosts
             /\ gb_linked' = r.bin.linked
             /\ gb_last' = [outcome |-> r.outcome, error |-> r.error,
                            pad |-> inner_pad,
                            was_linked |-> inner_pad \in gb_linked,
                            pre_count |-> gb_count,
                            pre_len |-> Len(gb_ghosts)]
    /\ UNCHANGED <<binVars, cbVars, fwVars, appVars, fnVars>>

\* GhostBin.__init__, lines 555-557: add_iterable links pads of the children
\* to one another before any ghost pad is made
GB_Link(q) ==
    /\ gb_calls = 0
    /\ q \notin gb_linked
    /\ gb_linked' = gb_linked \cup {q}
    /\ UNCHANGED <<gb_count, gb_ghosts, gb_calls, gb_last>>
    /\ UNCHANGED <<binVars, cbVars, fwVars, appVars, fnVars>>

\* make_ghost is called with a direction, with an inner pad (the direction
\* is then ignored), or with neither
GhostNext ==
    \/ \E direction \in Directions \cup {"NONE", "UNKNOWN"} :
          GB_MakeGhost(direction, NoGPad)
    \/ \E direction \in {"NONE", "SRC"}, inner_pad \in GPads :
          GB_MakeGhost(direction, inner_pad)
    \/ \E q \in InsidePads : GB_Link(q)

\* make_ghost calls on one GhostBin, one after the other
GhostInit == Init /\ num_uris = 0

GhostSpec == GhostInit /\ [][GhostNext]_vars

\* ------------------------------------------- pipeline.py: make_elements
\* an ElementDescription(type, name, properties), or None for an entry that
\* is left out
None == [type |-> "None", name |-> "None", properties |-> "None"]
ElementTypes == {"nvstreammux", "nvegltransform"}
ElementNames == {"stream-muxer", "transform"}
ElementProperties == {"None", "batch-size=1"}
ElementDescription ==
    [type : ElementTypes, name : ElementNames, properties : ElementProperties]
BinDescription ==
    UNION { [1..n -> ElementDescription \cup {None}] : n \in 0..MaxDescLen }

\* "if not ed": None is falsy, a namedtuple of three fields is not
ed_is_skipped_never(ed) == FALSE

ed_is_skipped(ed) == ed = None

\* make_element(type_name, name): Gst.ElementFactory.make gives None for a
\* type no installed plugin provides
make_element_unchecked(type_name, name, installed) ==
    [raised |-> FALSE,
     element |-> [type |-> type_name, name |-> name, properties |-> "None"]]

make_element(type_name, name, installed) ==
    IF type_name \notin installed
    THEN [raised |-> TRUE, element |-> None]
    ELSE [raised |-> FALSE,
          element |-> [type |-> type_name, name |-> name, properties |-> "None"]]

\* the loop of make_elements from entry i on, elements being the list so far
\* and warned telling whether a duplicate name was logged; last is the
\* entry the loop had reached when it ended
RECURSIVE make_elements_from(_, _, _, _, _)
make_elements_from(bin_description, i, elements, warned, installed) ==
    IF i > Len(bin_description)
    THEN [outcome |-> "returned", error |-> "none", elements |-> elements,
          warned |-> warned, last |-> i - 1]
    ELSE
    LET ed == bin_description[i]
    IN  IF ed_is_skipped(ed)
        THEN make_elements_from(bin_description, i + 1, elements, warned,
                                installed)
        ELSE IF ed = None
        THEN [outcome |-> "raised", error |-> "AttributeError",
              elements |-> <<>>, warned |-> warned, last |-> i]
        ELSE
        LET made == make_element(ed.type, ed.name, installed)
            element == [made.element EXCEPT !.properties = ed.properties]
            duplicate == \E k \in 1..Len(elements) : elements[k].name = ed.name
        IN  IF made.raised
            THEN [outcome |-> "raised", error |-> "ElementCreationError",
                  elements |-> <<>>, warned |-> warned, last |-> i]
            ELSE make_elements_from(bin_description, i + 1,
                                    Append(elements, element),
                                    warned \/ duplicate, installed)

make_elements(bin_description, installed) ==
    make_elements_from(bin_description, 1, <<>>, FALSE, installed)

\* make_elements called on a description, with some plugins installed
FN_MakeElements(bin_description, installed) ==
    /\ fn = NoFn
    /\ fn' = [op |-> "make_elements", bin_description |-> bin_description,
              installed |-> installed,
              result |-> make_elements(bin_description, installed)]
    /\ UNCHANGED <<binVars, cbVars, fwVars, appVars, gbVars>>

\* ---------------------------------------------- pipeline.py: link, auto_link
\* what link may be handed: a Gst.Element, a Gst.Pad (linked or not), or
\* something with no name, such as None
Kinds == {"Element", "Pad", "None"}
Linkables ==
    { o \in [kind : Kinds, is_linked : BOOLEAN] :
        o.is_linked => o.kind = "Pad" }
AnElement == [kind |-> "Element", is_linked |-> FALSE]

\* link(a, b): element_link is what a.link(b) gives for two elements, ret
\* what it gives for two pads
link_mixed_raises(a, b, element_link, ret) ==
    IF a.kind = "None" \/ b.kind = "None"
    THEN [raised |-> TRUE, linked |-> FALSE]
    ELSE IF a.kind = "Element" /\ b.kind = "Element"
    THEN [raised |-> ~element_link, linked |-> element_link]
    ELSE IF a.kind = "Pad" /\ b.kind = "Pad"
    THEN [raised |-> link_pads_raises(ret, a.is_linked, b.is_linked),
          linked |-> ret = "OK"]
    ELSE [raised |-> TRUE, linked |-> FALSE]

link(a, b, element_link, ret) ==
    IF a.kind = "None" \/ b.kind = "None"
    THEN [raised |-> TRUE, linked |-> FALSE]
    ELSE IF a.kind = "Element" /\ b.kind = "Element"
    THEN [raised |-> ~element_link, linked |-> element_link]
    ELSE IF a.kind = "Pad" /\ b.kind = "Pad"
    THEN [raised |-> link_pads_raises(ret, a.is_linked, b.is_linked),
          linked |-> ret = "OK"]
    ELSE [raised |-> FALSE, linked |-> FALSE]

\* link called on two objects, with the framework's answer
FN_Link(a, b, element_link, ret) ==
    /\ fn = NoFn
    /\ fn' = [op |-> "link", a |-> a, b |-> b, element_link |-> element_link,
              ret |-> ret, result |-> link(a, b, element_link, ret)]
    /\ UNCHANGED <<binVars, cbVars, fwVars, appVars, gbVars>>

\* auto_link: "prev = None" and "prev = element"
NoElement == 0
ElementIds == 1..MaxDescLen
ElementLists == UNION { [1..n -> ElementIds] : n \in 0..MaxDescLen }

auto_link_prev_kept(prev, element) ==
    IF prev = NoElement THEN element ELSE prev

auto_link_prev(prev, element) == element

\* the loop of auto_link from element i on; attempts are the calls of link
\* made so far, linked the pairs they linked, refused the calls for which the
\* framework's a.link(b) gives False
RECURSIVE auto_link_from(_, _, _, _, _, _)
auto_link_from(elements, i, prev, attempts, linked, refused) ==
    IF i > Len(elements)
    THEN [outcome |-> "returned", error |-> "none", attempts |-> attempts,
          linked |-> linked]
    ELSE
    LET element == elements[i]
    IN  IF prev = NoElement
        THEN auto_link_from(elements, i + 1, auto_link_prev(prev, element),
                            attempts, linked, refused)
        ELSE
        LET tried == Append(attempts, <<prev, element>>)
            r == link(AnElement, AnElement, Len(tried) \notin refused, "OK")
        IN  IF r.raised
            THEN [outcome |-> "raised", error |-> "LinkError",
                  attempts |-> tried, linked |-> linked]
            ELSE auto_link_from(elements, i + 1, auto_link_prev(prev, element),
                                tried, Append(linked, <<prev, element>>),
                                refused)

auto_link(elements, refused) ==
    auto_link_from(elements, 1, NoElement, <<>>, <<>>, refused)

\* auto_link called on a list of elements
FN_AutoLink(elements, refused) ==
    /\ fn = NoFn
    /\ fn' = [op |-> "auto_link", elements |-> elements, refused |-> refused,
              result |-> auto_link(elements, refused)]
    /\ UNCHANGED <<binVars, cbVars, fwVars, appVars, gbVars>>

\* make_inference_description, line 409: whether the nvegltransform entry
\* is an ElementDescription rather than None
has_transform_on_jetson(is_jetson, sink) == is_jetson

has_transform(is_jetson, sink) == is_jetson /\ sink = "nveglglessink"

\* the sinks the description is made for
Sinks == {"nveglglessink", "nvoverlaysink"}

\* make_inference_description, lines 370-416: the tuple it returns, with
\* "set" for a dict of properties
inference_bin_description(sink, is_jetson) ==
    << [type |-> "nvstreammux", name |-> "stream-muxer", properties |-> "set"],
       [type |-> "nvinfer", name |-> "pie", properties |-> "set"],
       [type |-> "nvvideoconvert", name |-> "converter", properties |-> "None"],
       [type |-> "nvmultistreamtiler", name |-> "tiler", properties |-> "set"],
       [type |-> "nvdsosd", name |-> "osd", properties |-> "None"],
       IF has_transform(is_jetson, sink)
       THEN [type |-> "nvegltransform", name |-> "transform",
             properties |-> "None"]
       ELSE None,
       [type |-> sink, name |-> "sink", properties |-> "set"] >>

\* GhostBin.__init__, lines 555-557: the children are the elements
\* make_elements makes of the description, every plugin being installed
inference_bin_children(sink, is_jetson) ==
    LET bd == inference_bin_description(sink, is_jetson)
    IN  make_elements(bd, { bd[i].type : i \in 1..Len(bd) }).elements

\* an InferenceBin is built for a sink, on a Jetson or not
FN_InferenceBin(sink, is_jetson) ==
    /\ fn = NoFn
    /\ fn' = [op |-> "InferenceBin", sink |-> sink, is_jetson |-> is_jetson,
              description |-> inference_bin_description(sink, is_jetson),
              children |-> inference_bin_children(sink, is_jetson)]
    /\ UNCHANGED <<binVars, cbVars, fwVars, appVars, gbVars>>

\* bin_to_pdf, lines 152-172: dot_dir tells whether GST_DEBUG_DUMP_DOT_DIR
\* is in the environment, dot_exe whether shutil.which finds 'dot', and
\* popen_ok whether subprocess.Popen starts ('nohup', dot, ...) or raises
\* OSError
bin_to_pdf(dot_dir, dot_exe, popen_ok) ==
    IF ~dot_dir THEN [raised |-> FALSE, returned |-> "None"]
    ELSE IF ~dot_exe THEN [raised |-> FALSE, returned |-> "dot_file"]
    ELSE IF popen_ok THEN [raised |-> FALSE, returned |-> "pdf_file"]
    ELSE [raised |-> TRUE, returned |-> "OSError"]

\* set_state(state, pdf=...), lines 456-473, with its two bin_to_pdf calls:
\* whether super().set_state was called, whether an exception left
\* set_state, and the value returned
set_state_pdf(pdf, dot_dir, dot_exe, popen_start, popen_end, ret) ==
    LET start == bin_to_pdf(dot_dir, dot_exe, popen_start)
        end == bin_to_pdf(dot_dir, dot_exe, popen_end)
    IN  IF pdf /\ start.raised
        THEN [requested |-> FALSE, raised |-> TRUE, returned |-> "none"]
        ELSE IF pdf /\ end.raised
        THEN [requested |-> TRUE, raised |-> TRUE, returned |-> "none"]
        ELSE [requested |-> TRUE, raised |-> FALSE, returned |-> ret]

\* set_state called with pdf on or off, in an environment
FN_SetState(pdf, dot_dir, dot_exe, popen_start, popen_end, ret) ==
    /\ fn = NoFn
    /\ fn' = [op |-> "set_state", pdf |-> pdf, dot_dir |-> dot_dir,
              dot_exe |-> dot_exe, popen_start |-> popen_start,
              popen_end |-> popen_end, ret |-> ret,
              snapshot |-> bin_to_pdf(dot_dir, dot_exe, popen_start),
              result |-> set_state_pdf(pdf, dot_dir, dot_exe, popen_start,
                                       popen_end, ret)]
    /\ UNCHANGED <<binVars, cbVars, fwVars, appVars, gbVars>>

\* ------------------------- pipeline.py: _on_decode_bin_child_added
\* element names, as sequences of tokens like the caps strings
DECODEBIN == <<"decodebin">>
NVV4L2DECODER == <<"nvv4l2", "decoder">>
ChildNames ==
    { <<"decodebin", "0">>, <<"nvv4l2", "decoder", "0">>,
      <<"nvv4l2", "h264enc", "0">>, <<"multiqueue", "0">> }
ChildChains == UNION { [1..n -> ChildNames] : n \in 1..MaxDepth }

\* lines 863-872: what the callback does with the element it is told of
on_child_added_flat(name) ==
    IF startswith(name, DECODEBIN) THEN "none"
    ELSE IF startswith(name, NVV4L2DECODER) THEN "set_property"
    ELSE "none"

on_child_added(name) ==
    IF startswith(name, DECODEBIN) THEN "connect"
    ELSE IF startswith(name, NVV4L2DECODER) THEN "set_property"
    ELSE "none"

\* chain[1] is added to the uridecodebin, which _add_source connected to the
\* callback (line 888), and chain[i + 1] is added to chain[i]; element-added
\* is emitted by the bin an element is added to, and reaches the callback
\* when that bin is connected.  Gives what the callback did for each element.
RECURSIVE child_added_from(_, _, _)
child_added_from(chain, i, connected) ==
    IF i > Len(chain) THEN <<>>
    ELSE
    LET did == IF connected THEN on_child_added(chain[i]) ELSE "not called"
    IN  <<did>> \o child_added_from(chain, i + 1, did = "connect")

child_added(chain) == child_added_from(chain, 1, TRUE)

\* the elements of a chain are created below a source
FN_ChildAdded(chain) ==
    /\ fn = NoFn
    /\ fn' = [op |-> "child_added", chain |-> chain,
              result |-> child_added(chain)]
    /\ UNCHANGED <<binVars, cbVars, fwVars, appVars, gbVars>>

\* ----------------------------------------- dstest_rtsp.py: cb_newpad
\* names of caps structures, as sequences of tokens
StructureNames ==
    { <<"video", "/x-raw">>, <<"audio", "/x-raw">>,
      <<"application/x-", "video", "-stats">> }

\* str.find(sub) != -1
find(string, sub) == \E i \in 1..Len(string) : string[i] = sub

\* cb_newpad, lines 72-75: the two tests before set_target
newpad_is_wanted_video(gstname, nvmm) == find(gstname, "video")

newpad_is_wanted(gstname, nvmm) == find(gstname, "video") /\ nvmm

\* cb_newpad applied to the target of the source bin's ghost pad "src":
\* nvmm tells whether the caps features contain memory:NVMM and accepted
\* whether Gst.GhostPad.set_target returns True
cb_newpad(target, gstname, nvmm, accepted) ==
    IF newpad_is_wanted(gstname, nvmm)
    THEN [called |-> TRUE,
          target |-> IF accepted THEN "decoder_src_pad" ELSE target,
          stderr |-> ~accepted]
    ELSE [called |-> FALSE, target |-> target,
          stderr |-> find(gstname, "video")]

\* pad-added of the uridecodebin in a source bin of the RTSP example
FN_NewPad(target, gstname, nvmm, accepted) ==
    /\ fn = NoFn
    /\ fn' = [op |-> "cb_newpad", target |-> target, gstname |-> gstname,
              nvmm |-> nvmm, accepted |-> accepted,
              result |-> cb_newpad(target, gstname, nvmm, accepted)]
    /\ UNCHANGED <<binVars, cbVars, fwVars, appVars, gbVars>>

\* ------------------------------ pipeline.py: several InferenceBins
\* the classes and their instances: class_count is InferenceBin._count, the
\* itertools.count of the class body (line 641), and each instance has the
\* attributes its __init__ sets
NoBins == [class_count |-> 0, bins |-> <<>>]

\* InferenceBin.__init__, lines 655-661, and GhostBin.__init__, 550-553
InferenceBin_init(world) ==
    [class_count |-> world.class_count + 1,
     bins |-> Append(world.bins,
                [name |-> <<"inference", world.class_count>>,
                 outer_pad_count |-> [d \in Directions |-> 0],
                 pad_counter |-> 0,
                 source_counter |-> 0])]

\* an operation on instance b that goes well: make_ghost (line 621),
\* get_sink_pad (708, 712) or link_source (723-726)
BinOps == {"make_ghost", "get_sink_pad", "link_source"}
bin_op(world, b, op) ==
    LET bin == world.bins[b]
        ghosted == [bin EXCEPT !.outer_pad_count["SINK"] = @ + 1]
        padded == [ghosted EXCEPT !.pad_counter = @ + 1]
        sourced == [padded EXCEPT !.source_counter = @ + 1]
    IN  [world EXCEPT !.bins[b] =
            CASE op = "make_ghost" -> ghosted
              [] op = "get_sink_pad" -> padded
              [] OTHER -> sourced]

\* what instance a sees of the counters: its own attributes and, through
\* self._count, the number the next name will get
observed(world, a) ==
    [outer_pad_count |-> world.bins[a].outer_pad_count,
     pad_counter |-> world.bins[a].pad_counter,
     source_counter |-> world.bins[a].source_counter,
     next_count |-> world.class_count]

RECURSIVE bin_ops(_, _, _)
bin_ops(world, b, ops) ==
    IF ops = <<>> THEN world
    ELSE bin_ops(bin_op(world, b, Head(ops)), b, Tail(ops))

\* with bins 1 and 2 built and used, op is done on bin 2, or a bin is built
FN_OtherBin(used1, used2, op) ==
    /\ fn = NoFn
    /\ LET made == InferenceBin_init(InferenceBin_init(NoBins))
           before == bin_ops(bin_ops(made, 1, used1), 2, used2)
           after == IF op = "__init__" THEN InferenceBin_init(before)
                    ELSE bin_op(before, 2, op)
       IN  fn' = [op |-> "other_bin", done |-> op, before |-> before,
                  after |-> after]
    /\ UNCHANGED <<binVars, cbVars, fwVars, appVars, gbVars>>

\* DeepStreamApp.__init__, line 819: the loop argument is None or a
\* GLib.MainLoop of the caller
LoopArgs == {"None", "supplied"}
init_loop(loop) == IF loop = "None" THEN "GLib.MainLoop()" ELSE loop

\* play(loop_also) on an application made with a loop argument: the calls
\* it makes, in order, and the value it returns
play(loop, loop_also, is_running, ret) ==
    LET own == init_loop(loop)
    IN  [loops |-> {own},
         calls |-> <<<<"set_state", "PLAYING">>>> \o
                   (IF play_runs_loop(loop_also, is_running)
                    THEN <<<<"run", own>>>> ELSE <<>>),
         returned |-> ret]

\* play called on an application whose loop is or is not running
FN_Play(loop, loop_also, is_running, ret) ==
    /\ fn = NoFn
    /\ fn' = [op |-> "play", loop |-> loop, loop_also |-> loop_also,
              is_running |-> is_running, ret |-> ret,
              result |-> play(loop, loop_also, is_running, ret)]
    /\ UNCHANGED <<binVars, cbVars, fwVars, appVars, gbVars>>

\* __enter__ called on an application made for a list of uris
FN_Enter(uris, have_youtube_dl, videos, pep479) ==
    /\ fn = NoFn
    /\ fn' = [op |-> "enter", uris |-> uris,
              have_youtube_dl |-> have_youtube_dl, videos |-> videos,
              pep479 |-> pep479,
              result |-> DeepStreamApp_enter(uris, have_youtube_dl, videos,
                                             pep479)]
    /\ UNCHANGED <<binVars, cbVars, fwVars, appVars, gbVars>>

\* the functions of pipeline.py, each called once on its own
FnInit == Init /\ num_uris = 0

FnNext ==
    \/ \E bd \in BinDescription, installed \in SUBSET ElementTypes :
            FN_MakeElements(bd, installed)
    \/ \E a \in Linkables, b \in Linkables, element_link \in BOOLEAN :
         \E ret \in PadLinkReturn(a.is_linked, b.is_linked) :
            FN_Link(a, b, element_link, ret)
    \/ \E elements \in ElementLists, refused \in SUBSET (1..(MaxDescLen - 1)) :
            FN_AutoLink(elements, refused)
    \/ \E uris \in UriLists, have_youtube_dl \in BOOLEAN,
          videos \in 0..MaxVideos, pep479 \in BOOLEAN :
            FN_Enter(uris, have_youtube_dl, videos, pep479)
    \/ \E sink \in Sinks, is_jetson \in BOOLEAN : FN_InferenceBin(sink, is_jetson)
    \/ \E chain \in ChildChains : FN_ChildAdded(chain)
    \/ \E used1 \in {<<>>} \cup [1..1 -> BinOps],
          used2 \in {<<>>} \cup [1..1 -> BinOps],
          op \in BinOps \cup {"__init__"} :
            FN_OtherBin(used1, used2, op)
    \/ \E target \in {"none", "earlier_pad"}, gstname \in StructureNames,
          nvmm \in BOOLEAN, accepted \in BOOLEAN :
            FN_NewPad(target, gstname, nvmm, accepted)
    \/ \E pdf \in BOOLEAN, dot_dir \in BOOLEAN, dot_exe \in BOOLEAN,
          popen_start \in BOOLEAN, popen_end \in BOOLEAN :
         \E ret \in StateChangeReturn("PLAYING") :
            FN_SetState(pdf, dot_dir, dot_exe, popen_start, popen_end, ret)
    \/ \E loop \in LoopArgs, loop_also \in BOOLEAN, is_running \in BOOLEAN :
         \E ret \in StateChangeReturn("PLAYING") :
            FN_Play(loop, loop_also, is_running, ret)

FnSpec == FnInit /\ [][FnNext]_vars

\* ------------------------------------------------------- specifications
\* pad-added callbacks run one at a time
Sequential(t) == \A u \in Threads \ {t} : th[u].pc = "idle"

Next ==
    \/ MainStep
    \/ AsyncDone
    \/ Interrupt
    \/ BlockRaises
    \/ \E m \in MessageTypes : OnMessage(m)
    \/ \E t \in Threads, pad \in Pads : Sequential(t) /\ LS_Begin(t, pad)
    \/ \E t \in Threads : LinkStep(t)

Spec == Init /\ [][Next]_vars

\* the main thread is scheduled: it takes its next step when it has one
LiveSpec == Spec /\ WF_vars(MainStep)

\* pad-added callbacks of different sources run on their own streaming threads
NextConc ==
    \/ MainStep
    \/ AsyncDone
    \/ Interrupt
    \/ BlockRaises
    \/ \E m \in MessageTypes : OnMessage(m)
    \/ \E t \in Threads, pad \in Pads : LS_Begin(t, pad)
    \/ \E t \in Threads : LinkStep(t)

SpecConc == Init /\ [][NextConc]_vars


\* ================================================================ claims
LinkedPads == { p \in Pads : SrcLinked(p) }

\* C1: a link_source call on a video pad that fails (get_sink_pad, make_ghost
\* or link raised) leaves source_counter at its value before the call, and
\* the error reaches the caller.
C1_FailedLinkRestoresCounter ==
    (AllIdle /\ last_ls.outcome = "raised") =>
        /\ source_counter = last_ls.pre
        /\ last_ls.error \in {"GetPadError", "LinkError", "BinAddError"}

\* a second attachment failed after a first one had succeeded
C1_Witness ==
    /\ AllIdle
    /\ last_ls.outcome = "raised"
    /\ last_ls.pre = 1
    /\ Cardinality(links) = 1

\* C2: with link_source calls executed one after the other, whenever no call
\* is in progress source_counter is the number of source pads linked to a
\* sink port of the InferenceBin.
C2_CounterIsLinkedSources ==
    AllIdle => source_counter = Cardinality(LinkedPads)

\* two calls are over, one linked its pad and the other failed or was ignored
C2_Witness ==
    /\ AllIdle
    /\ calls = 2
    /\ Cardinality(LinkedPads) = 1
    /\ last_ls.outcome \in {"raised", "ignored"}

RawVideo(pad) ==
    /\ Len(pad[2]) >= 2
    /\ pad[2][1] = "video/"
    /\ pad[2][2] = "x-raw"

\* C3: a link_source call whose pad is not a raw video pad returns at once:
\* counters, ghost ports, request pads and links stay as they are and the
\* call never reaches get_sink_pad or link.
C3_NonVideoIgnored ==
    [][ calls' = calls + 1 =>
          \/ \E t \in Threads :
                /\ th[t].pc = "idle"
                /\ th'[t].pc = "inc_store"
                /\ RawVideo(th'[t].pad)
          \/ /\ UNCHANGED <<binVars, th, acquired>>
             /\ last_ls'.outcome = "ignored" ]_vars

\* a non-video pad was ignored while another source is linked
C3_Witness ==
    /\ last_ls.outcome = "ignored"
    /\ last_ls.pre = 1
    /\ source_counter = 1
    /\ Cardinality(links) = 1

\* C4: with callbacks of different sources running concurrently no update of
\* source_counter or pad_counter is lost: once all have returned,
\* source_counter is the number of links made and pad_counter the number of
\* inner pads obtained.
C4_NoLostUpdate ==
    AllIdle => (source_counter = Cardinality(links) /\ pad_counter = acquired)

InStructural(t) ==
    th[t].pc \in {"find", "request", "count_load", "count_store", "mg_check",
                  "mg_name", "mg_new", "mg_inc_store", "mg_add"}

\* C5: no two callbacks are inside get_sink_pad / make_ghost at the same
\* time, and two attaching sources never use the same request index sink_i
\* or the same ghost port name.
C5_SingleWriter ==
    \A t1 \in Threads : \A t2 \in Threads \ {t1} :
        /\ ~(InStructural(t1) /\ InStructural(t2))
        /\ (th[t1].req # NoPad => th[t1].req # th[t2].req)
        /\ (th[t1].name # NoName => th[t1].name # th[t2].name)

\* C6: an EOS message handled while the application is PLAYING inside play()
\* leads to the pipeline in NULL, the loop stopped and main() returned.
C6_EosEndsRun ==
    eos_handled ~>
        (main_pc = "done" /\ state = "NULL" /\ ~loop_running /\ exc = "none")

\* C7: after quit() the last transition requested is the one to NULL, and a
\* loop that was running when quit() was called is no longer running.
C7_QuitStopsLoop ==
    quit_streak > 0 =>
        /\ last_call.target = "NULL"
        /\ quit_loop_before => ~loop_running

\* C8: quit() applied twice gives the application (pipeline state, loop,
\* counters, ports and links) that quit() applied once gives.
C8_QuitIdempotent ==
    \A r1 \in StateChangeReturn(null_target(state)) :
        LET once == quit(Cur, TRUE, r1)
        IN  \A r2 \in StateChangeReturn(null_target(once.state)) :
                quit(once, TRUE, r2) = once

\* quit() has just been called twice in a row
C8_Witness ==
    /\ quit_streak = 2
    /\ state = "NULL"
    /\ pending = "VOID"

\* C9: set_state calls get_state(timeout) exactly when the framework
\* reported ASYNC and async_ is false.
C9_WaitsIffPending ==
    last_call.target # "VOID" =>
        (last_call.waited <=> (last_call.ret = "ASYNC" /\ ~last_call.async_))

\* C10: a synchronous set_state whose transition stays pending forever waits
\* its timeout and reports the timeout to the caller.
C10_TimeoutReported ==
    ( /\ last_call.target # "VOID"
      /\ ~last_call.async_
      /\ last_call.ret = "ASYNC"
      /\ stuck
      /\ pending = last_call.target ) =>
        /\ last_call.waited
        /\ last_call.error = "timeout" \/ last_call.returned = "FAILURE"

\* C11: every set_state call for which the framework reported FAILURE takes
\* the failure branch: the failure to reach the target is reported.
C11_FailureReported ==
    (last_call.target # "VOID" /\ last_call.ret = "FAILURE") =>
        last_call.error = "failure"

\* C12: once on_message has handled an EOS or an ERROR message, quit() was
\* called, the pipeline is in NULL and the loop is not running.
C12_ErrorTerminates ==
    last_msg \in {"EOS", "ERROR"} =>
        /\ quit_streak > 0
        /\ state = "NULL"
        /\ ~loop_running

\* C13: on_message returns True for every message type, and for every type
\* other than EOS and ERROR it leaves the pipeline state, the loop and all
\* counters as they were.
C13_OtherMessagesKeepState ==
    (main_pc = "in_loop" /\ loop_running /\ watch) =>
        \A m \in MessageTypes :
            \A ret \in StateChangeReturn(null_target(state)) :
                LET r == on_message(Cur, m, ret)
                IN  /\ r.returned = TRUE
                    /\ m \notin {"EOS", "ERROR"} => (r.app = Cur /\ ~r.quits)

\* the loop dispatches a WARNING to the watch while a linked source is
\* playing: the handler returns True and the application is as before
C13_Witness ==
    /\ main_pc = "in_loop"
    /\ watch
    /\ loop_running
    /\ state = "PLAYING"
    /\ source_counter = 1
    /\ Cardinality(links) = 1
    /\ on_message(Cur, "WARNING", "SUCCESS") =
          [app |-> Cur, quits |-> FALSE, returned |-> TRUE]

\* C14: for n >= 1 sources the tiler of the InferenceBin has
\* rows = ceil(sqrt(n)) and columns = ceil(n / rows).
C14_TilerGrid ==
    (main_pc # "init" /\ num_uris >= 1) =>
        /\ (props.rows - 1) * (props.rows - 1) < num_uris
        /\ num_uris <= props.rows * props.rows
        /\ (props.columns - 1) * props.rows < num_uris
        /\ num_uris <= props.columns * props.rows

\* C14 as amended: for n >= 1 sources the tiler is square, with
\* rows = columns = ceil(sqrt(n)).
C14_SquareGrid ==
    (main_pc # "init" /\ num_uris >= 1) =>
        /\ (props.rows - 1) * (props.rows - 1) < num_uris
        /\ num_uris <= props.rows * props.rows
        /\ props.columns = props.rows

\* an InferenceBin was built for a number of sources that is not a square
C14_Witness ==
    /\ main_pc # "init"
    /\ num_uris = 2
    /\ props.rows = 2
    /\ props.columns = 2

\* C15: whenever N >= 1 sources are attached to the InferenceBin, the
\* batch-size of the stream-muxer and of the inference element are N.
C15_BatchSizeIsAttached ==
    (AllIdle /\ Cardinality(LinkedPads) >= 1) =>
        /\ props.mux_batch_size = Cardinality(LinkedPads)
        /\ props.pie_batch_size = Cardinality(LinkedPads)
        /\ props.mux_batch_size = source_counter

\* C16: a make_ghost call given an inner pad that is already linked raises
\* LinkError, adds no ghost pad and leaves both per-direction counters as
\* they were.
C16_LinkedInnerPadRejected ==
    (gb_last.outcome # "none" /\ gb_last.pad # NoGPad /\ gb_last.was_linked) =>
        /\ gb_last.outcome = "raised"
        /\ gb_last.error = "LinkError"
        /\ gb_count = gb_last.pre_count
        /\ Len(gb_ghosts) = gb_last.pre_len

\* a linked inner pad was given after a ghost pad had been made
C16_Witness ==
    /\ gb_last.outcome = "raised"
    /\ gb_last.pad \in InsidePads
    /\ gb_last.was_linked
    /\ Len(gb_ghosts) = 1
    /\ gb_last.pre_count[gb_last.pad.dir] = 1

StrictNames(ghosts_) ==
    \A i \in 1..Len(ghosts_) : \A j \in 1..Len(ghosts_) :
        /\ (i < j /\ ghosts_[i].name[1] = ghosts_[j].name[1])
              => ghosts_[i].name[2] < ghosts_[j].name[2]
        /\ (i # j) => ghosts_[i].name # ghosts_[j].name

\* C17: over any sequence of make_ghost calls on one GhostBin the
\* per-direction counters never decrease, the ghost pads returned for a
\* direction carry strictly increasing suffixes, and no two ghost pads of
\* the bin share a name.
C17_NamesNeverReused ==
    [][ /\ \A d \in Directions : gb_count'[d] >= gb_count[d]
        /\ StrictNames(gb_ghosts') ]_vars

\* two src ghost pads were returned with a failed call in between
C17_Witness ==
    /\ Len(gb_ghosts) = 2
    /\ gb_ghosts[1].name = <<"src", 0>>
    /\ gb_ghosts[2].name = <<"src", 2>>
    /\ gb_calls = 3

\* C18: every ghost pad of the GhostBin targets a pad of a child of that
\* GhostBin, which was unlinked when it was ghosted.
C18_GhostsTargetOwnPads ==
    /\ \A i \in 1..Len(gb_ghosts) : gb_ghosts[i].target \in InsidePads
    /\ (gb_last.outcome = "returned" /\ Len(gb_ghosts) > 0) => ~gb_last.was_linked

StrictlyIncreasing(seq) ==
    \A i \in 1..Len(seq) : \A j \in 1..Len(seq) : i < j => seq[i] < seq[j]

\* C19: across get_sink_pad calls the index used to request a pad of the
\* stream-muxer is strictly increasing, so no index is requested twice, and
\* a muxer pad obtained by an earlier, failed attachment is never handed
\* out again.
C19_IndexNeverRepeats ==
    /\ StrictlyIncreasing([i \in 1..Len(requested) |-> requested[i].idx])
    /\ \A t \in Threads : ~(th[t].pc = "count_load" /\ th[t].req = NoPad)

\* C19 as amended: with calls made one after the other, the indices of the
\* request pads the stream-muxer grants are strictly increasing, and a pad
\* get_sink_pad hands out again is a granted pad that is unlinked.
C19_GrantedIndexIncreases ==
    /\ \A i \in 1..Len(requested) : \A j \in 1..Len(requested) :
          (i < j /\ requested[i].granted /\ requested[j].granted)
              => requested[i].idx < requested[j].idx
    /\ \A t \in Threads :
          (th[t].pc = "count_load" /\ th[t].req = NoPad) =>
              /\ th[t].inner[1] \in mux_pads
              /\ ~InnerLinked(th[t].inner[1])

\* two pads were granted, the second after the first attachment was over
C19_Witness ==
    /\ Len(requested) = 2
    /\ requested[1].granted
    /\ requested[2].granted
    /\ requested[2].idx = 1

\* the muxer has just refused the pad get_sink_pad asked for
Refused(t) ==
    /\ th[t].pc = "rb_load"
    /\ th[t].req # NoPad
    /\ th[t].inner = NoPad

\* C20: when no unlinked muxer sink pad exists and the muxer refuses a new
\* one, get_sink_pad raises GetPadError and pad_counter, the ghost pad
\* counters, the ghost pads and the muxer's pads are as before the call.
C20_RefusedRequestChangesNothing ==
    \A t \in Threads :
        Refused(t) =>
            /\ th[t].error = "GetPadError"
            /\ BinSnapshot = th[t].snap

\* a request was refused after an earlier source had been attached
C20_Witness ==
    \E t \in Threads :
        /\ Refused(t)
        /\ th[t].req = <<1>>
        /\ Cardinality(ghosts) = 1
        /\ Cardinality(links) = 1

Present(bin_description) ==
    SelectSeq(bin_description, LAMBDA ed : ed # None)

\* C21: when make_elements returns, its list has exactly one element per
\* entry that is not None, in the order of the description, with the type
\* and the name of its entry; and entries that are None cause no error:
\* it returns whenever the types of the other entries can be made.
C21_OneElementPerEntry ==
    fn.op = "make_elements" =>
        LET want == Present(fn.bin_description)
            got == fn.result.elements
        IN  /\ (\A k \in 1..Len(want) : want[k].type \in fn.installed)
                  => fn.result.outcome = "returned"
            /\ fn.result.outcome = "returned" =>
                  /\ Len(got) = Len(want)
                  /\ \A k \in 1..Len(want) :
                        /\ got[k].type = want[k].type
                        /\ got[k].name = want[k].name

\* a description with an entry left out between two others was built
C21_Witness ==
    /\ fn.op = "make_elements"
    /\ Len(fn.bin_description) = 3
    /\ fn.bin_description[1] # None
    /\ fn.bin_description[2] = None
    /\ fn.bin_description[3] # None
    /\ fn.result.outcome = "returned"
    /\ Len(fn.result.elements) = 2

\* C22: make_elements raises ElementCreationError, and returns no list, when
\* the type of one of its entries cannot be made; two entries with the same
\* name do not make it fail, each gets its element.
C22_CreationErrorOnly ==
    fn.op = "make_elements" =>
        LET want == Present(fn.bin_description)
            makeable == \A k \in 1..Len(want) : want[k].type \in fn.installed
            bd == fn.bin_description
        IN  /\ ~makeable =>
                  /\ fn.result.outcome = "raised"
                  /\ fn.result.error = "ElementCreationError"
                  /\ fn.result.elements = <<>>
                  /\ bd[fn.result.last] # None
                  /\ bd[fn.result.last].type \notin fn.installed
                  /\ \A k \in 1..(fn.result.last - 1) :
                        bd[k] # None => bd[k].type \in fn.installed
            /\ makeable =>
                  /\ fn.result.outcome = "returned"
                  /\ Len(fn.result.elements) = Len(want)

\* two entries of one name were built, with the warning logged
C22_Witness ==
    /\ fn.op = "make_elements"
    /\ Len(fn.bin_description) = 2
    /\ fn.bin_description[1] # None
    /\ fn.bin_description[2] # None
    /\ fn.bin_description[1].name = fn.bin_description[2].name
    /\ fn.result.outcome = "returned"
    /\ fn.result.warned
    /\ Len(fn.result.elements) = 2

Pairs(elements) ==
    [k \in 1..(IF Len(elements) = 0 THEN 0 ELSE Len(elements) - 1) |->
        <<elements[k], elements[k + 1]>>]

\* C23: auto_link over e_0..e_{n-1} attempts the consecutive pairs in
\* order; when the pair at position k is the first to fail it raises
\* LinkError having attempted only the pairs up to k, the pairs before k
\* staying linked; with no failure every consecutive pair is linked.
C23_ConsecutivePairsFailFast ==
    fn.op = "auto_link" =>
        LET pairs == Pairs(fn.elements)
            fails == { k \in 1..Len(pairs) : k \in fn.refused }
        IN  IF fails = {}
            THEN /\ fn.result.outcome = "returned"
                 /\ fn.result.attempts = pairs
                 /\ fn.result.linked = pairs
            ELSE LET k == CHOOSE x \in fails : \A y \in fails : x <= y
                 IN  /\ fn.result.outcome = "raised"
                     /\ fn.result.error = "LinkError"
                     /\ fn.result.attempts = SubSeq(pairs, 1, k)
                     /\ fn.result.linked = SubSeq(pairs, 1, k - 1)

\* the second of two pairs failed, leaving the first linked
C23_Witness ==
    /\ fn.op = "auto_link"
    /\ Len(fn.elements) = 3
    /\ fn.refused = {2}
    /\ fn.result.outcome = "raised"
    /\ Len(fn.result.attempts) = 2
    /\ Len(fn.result.linked) = 1

\* C24: link(a, b) returns normally only if a and b are linked when it
\* returns.
C24_ReturnsOnlyLinked ==
    (fn.op = "link" /\ ~fn.result.raised) => fn.result.linked

\* C25: a failed attachment is isolated. No step of a link_source call
\* removes a link or changes the lifecycle state, and a call that returns
\* normally, whatever failed before it, has linked its pad to a ghost pad
\* of the bin.
C25_FailedAttachmentIsolated ==
    [][\A t \in Threads :
         (th[t].pc # "idle" /\ th'[t] # th[t]) =>
            /\ links \subseteq links'
            /\ <<state, pending, stuck>>' = <<state, pending, stuck>>
            /\ (th'[t].pc = "idle" /\ th[t].error = "none" /\ th[t].pc = "link") =>
                  /\ <<th[t].pad, th[t].name>> \in links'
                  /\ \E g \in ghosts' : <<"sink", g.idx>> = th[t].name]_vars

\* a call failed at the link, leaving its ghost pad unlinked, and the call
\* after it linked its source
C25_Witness ==
    /\ calls = 2
    /\ AllIdle
    /\ last_ls.outcome = "returned"
    /\ Cardinality(links) = 1
    /\ \E g \in ghosts : ~SinkLinked(<<"sink", g.idx>>)

C27_OneSourcePerUri ==
    fn.op = "enter" =>
        LET k == Len(fn.uris)
        IN  /\ ~fn.result.raised
            /\ fn.result.num_sources = k
            /\ Len(fn.result.sources) = k
            /\ \A i \in 1..Len(fn.result.sources) :
                  fn.result.sources[i] = <<"source", i - 1>>

\* C28: play() first requests PLAYING and then runs the application's loop
\* exactly when loop_also is true and the loop is not running; the
\* application has one loop, the supplied one when one was supplied.
C28_PlayRunsTheOneLoop ==
    fn.op = "play" =>
        LET made == fn.result.calls
            own == CHOOSE l \in fn.result.loops : TRUE
        IN  /\ Cardinality(fn.result.loops) = 1
            /\ fn.loop = "supplied" => own = "supplied"
            /\ made[1] = <<"set_state", "PLAYING">>
            /\ Len(made) \in {1, 2}
            /\ Len(made) = 2 <=> (fn.loop_also /\ ~fn.is_running)
            /\ Len(made) = 2 => made[2] = <<"run", own>>

\* play(loop_also=True) was called while the supplied loop was running and
\* did not run it again
C28_Witness ==
    /\ fn.op = "play"
    /\ fn.loop = "supplied"
    /\ fn.loop_also
    /\ fn.is_running
    /\ Len(fn.result.calls) = 1

\* C29: quit() rolls nothing back and resolves nothing: a step in which
\* quit() is called requests NULL and leaves source_counter, pad_counter, the ghost pad
\* counters, the request pads, the ghost pads and the links as they were,
\* and a link_source call in progress stays where it was.
C29_QuitRollsNothingBack ==
    [][ ((main_pc = "exiting" /\ main_pc' = "done") \/ quit_streak' > quit_streak)
          => /\ last_call'.target = "NULL"
             /\ UNCHANGED <<source_counter, pad_counter, outer_pad_count,
                            mux_pads, ghosts, links, th>> ]_vars

\* quit() was called while one source was linked and the attachment of
\* another had come as far as its link: it is still there, unlinked
C29_Witness ==
    /\ main_pc = "done"
    /\ quit_streak > 0
    /\ Cardinality(links) = 1
    /\ \E t \in Threads : th[t].pc = "link" /\ ~SrcLinked(th[t].pad)

\* C30: in every reachable state of a GhostBin the counter of each
\* direction is the number of ghost pads of that direction added to the bin.
C30_CounterIsGhostCount ==
    \A d \in Directions :
        gb_count[d] =
            Cardinality({ i \in 1..Len(gb_ghosts) :
                            gb_ghosts[i].name[1] = outer_name(d, 0)[1] })

\* C31: make_ghost without an inner pad raises GetPadError when no child
\* has an unlinked pad of the direction asked for, and make_ghost with
\* neither direction nor inner pad raises BinAddError; either way the bin
\* keeps its ghost pads and its counters.
C31_NothingToGhost ==
    \A new_willing \in BOOLEAN, add_willing \in BOOLEAN :
        /\ \A direction \in Directions :
              gb_find_unlinked_pad(GhostBinNow, direction) = {NoGPad} =>
                  make_ghost(GhostBinNow, direction, NoGPad, NoGPad,
                             new_willing, add_willing)
                    = [bin |-> GhostBinNow, outcome |-> "raised",
                       error |-> "GetPadError"]
        /\ \A found \in gb_find_unlinked_pad(GhostBinNow, "NONE") :
              make_ghost(GhostBinNow, "NONE", NoGPad, found,
                         new_willing, add_willing)
                = [bin |-> GhostBinNow, outcome |-> "raised",
                   error |-> "BinAddError"]

\* with ghost pads made and every pad of the children linked, a call
\* without an inner pad found nothing to ghost
C31_Witness ==
    /\ gb_last.outcome = "raised"
    /\ gb_last.error = "GetPadError"
    /\ gb_last.pad = NoGPad
    /\ Len(gb_ghosts) > 0
    /\ gb_count = gb_last.pre_count
    /\ \A d \in Directions : gb_find_unlinked_pad(GhostBinNow, d) = {NoGPad}

Names(seq) == [i \in 1..Len(seq) |-> seq[i].name]

\* C32: the inference description lists stream-muxer, pie, converter,
\* tiler, osd and sink in that order, with the transform between osd and
\* sink exactly on a Jetson with nveglglessink; the InferenceBin then has 7
\* children, and 6 otherwise.
C32_TransformOnlyOnJetsonEgl ==
    fn.op = "InferenceBin" =>
        LET listed == Names(SelectSeq(fn.description, LAMBDA ed : ed # None))
            wanted == fn.is_jetson /\ fn.sink = "nveglglessink"
        IN  /\ wanted =>
                  listed = <<"stream-muxer", "pie", "converter", "tiler",
                             "osd", "transform", "sink">>
            /\ ~wanted =>
                  listed = <<"stream-muxer", "pie", "converter", "tiler",
                             "osd", "sink">>
            /\ Names(fn.children) = listed
            /\ Len(fn.children) = IF wanted THEN 7 ELSE 6

\* on a Jetson with another sink the bin has six children
C32_Witness ==
    /\ fn.op = "InferenceBin"
    /\ fn.is_jetson
    /\ fn.sink # "nveglglessink"
    /\ Len(fn.children) = 6

\* C33: with pdf on, a failure to emit the snapshot before or after the
\* transition does not fail or prevent it: set_state requests the
\* transition and returns the framework's result; and with no output
\* directory configured the snapshot returns None.
C33_SnapshotIsBestEffort ==
    (fn.op = "set_state" /\ fn.pdf) =>
        /\ fn.result.requested
        /\ ~fn.result.raised
        /\ fn.result.returned = fn.ret
        /\ ~fn.dot_dir => fn.snapshot = [raised |-> FALSE, returned |-> "None"]

\* C34: along every chain source bin -> decodebin ... -> leaf the callback
\* reaches the leaf, and sets the tuning properties on it exactly when it
\* is a hardware decoder (its name starts with nvv4l2decoder); no other
\* element of any chain has properties set.
C34_DecoderTunedAtAnyDepth ==
    fn.op = "child_added" =>
        LET n == Len(fn.chain)
            is_decoder(k) == /\ Len(fn.chain[k]) >= 2
                             /\ fn.chain[k][1] = "nvv4l2"
                             /\ fn.chain[k][2] = "decoder"
        IN  /\ (\A k \in 1..(n - 1) : fn.chain[k][1] = "decodebin") =>
                  (fn.result[n] = "set_property" <=> is_decoder(n))
            /\ \A k \in 1..n : fn.result[k] = "set_property" => is_decoder(k)

\* a decoder two decodebins down was tuned
C34_Witness ==
    /\ fn.op = "child_added"
    /\ Len(fn.chain) = 3
    /\ fn.chain[1][1] = "decodebin"
    /\ fn.chain[2][1] = "decodebin"
    /\ fn.result[3] = "set_property"

\* C35: a link_source call makes one attempt: over any run there are no
\* more pad requests and no more pads obtained than calls, no more links
\* than pads obtained, a call that failed goes on to its end without
\* trying again, and a pad that is not raw video is never linked.
C35_OneAttemptPerPad ==
    [][ /\ Len(requested') <= calls'
        /\ acquired' <= calls'
        /\ Cardinality(links') <= acquired'
        /\ \A l \in links' : RawVideo(l[1])
        /\ \A t \in Threads :
              th[t].pc \in {"rb_load", "rb_store"} =>
                  th'[t].pc \in {"rb_load", "rb_store", "idle"} ]_vars

\* a call on a video pad obtained its pad and failed, and a later call on a
\* pad that is not video was ignored: nothing is linked
C35_Witness ==
    /\ AllIdle
    /\ calls = 2
    /\ acquired = 1
    /\ links = {}
    /\ last_ls.outcome = "ignored"

\* C36: cb_newpad sets the target of the source bin's ghost pad to the
\* decoder pad if and only if the caps name contains "video" and the caps
\* features contain memory:NVMM; otherwise the target is left as it was.
C36_TargetSetIffNvmmVideo ==
    fn.op = "cb_newpad" =>
        LET wanted == (\E i \in 1..Len(fn.gstname) : fn.gstname[i] = "video")
                        /\ fn.nvmm
        IN  /\ wanted => fn.result.target = "decoder_src_pad"
            /\ ~wanted => fn.result.target = fn.target

\* C36 as amended: cb_newpad calls set_target with the decoder pad if and
\* only if the caps name contains "video" and the features contain
\* memory:NVMM; the target is then the decoder pad when set_target accepts
\* it, and in every other case the target is left as it was.
C36_SetTargetTriedIffNvmmVideo ==
    fn.op = "cb_newpad" =>
        LET wanted == (\E i \in 1..Len(fn.gstname) : fn.gstname[i] = "video")
                        /\ fn.nvmm
        IN  /\ fn.result.called <=> wanted
            /\ (wanted /\ fn.accepted) => fn.result.target = "decoder_src_pad"
            /\ ~(wanted /\ fn.accepted) => fn.result.target = fn.target

\* a video pad with memory:NVMM came and set_target refused it: the ghost
\* pad still has no target
C36_Witness ==
    /\ fn.op = "cb_newpad"
    /\ fn.gstname = <<"video", "/x-raw">>
    /\ fn.nvmm
    /\ ~fn.accepted
    /\ fn.target = "none"
    /\ fn.result.called
    /\ fn.result.target = "none"

\* C37: the counters are owned by each instance: an operation on one bin
\* (its construction, make_ghost, get_sink_pad, link_source) leaves the
\* ghost pad counters, pad_counter, source_counter and the state of the
\* name counter that every other instance observes as they were.
C37_CountersPerInstance ==
    fn.op = "other_bin" =>
        observed(fn.after, 1) = observed(fn.before, 1)

\* C38: with the calls on an InferenceBin executed one after the other,
\* between calls 0 <= source_counter <= the number of sink ghost pads of
\* the bin <= pad_counter.
C38_CountersOrdered ==
    AllIdle =>
        /\ 0 <= source_counter
        /\ source_counter <= Cardinality(ghosts)
        /\ Cardinality(ghosts) <= pad_counter

\* one source is linked and another call left a ghost pad that it could
\* not link
C38_Witness ==
    /\ AllIdle
    /\ source_counter = 1
    /\ Cardinality(ghosts) = 2
    /\ pad_counter = 2

C40_PlayLoopsWhateverTheResult ==
    [][ /\ (main_pc = "readied" /\ last_call' # last_call) =>
              (main_pc' = "in_loop" /\ loop_running')
        /\ (main_pc = "in_loop" /\ main_pc' # "in_loop") => ~loop_running
      ]_vars

\* the transition to PLAYING failed and the loop is running
C40_Witness ==
    /\ main_pc = "in_loop"
    /\ loop_running
    /\ last_call.target = "PLAYING"
    /\ last_call.ret = "FAILURE"

====
